---------------------------- MODULE Spec2Model ----------------------------
(***************************************************************************)
(* AnimatedScenesImage (custom_components/animated_scenes/image.py): the   *)
(* entity that turns a weighted list of colours into a 500x100 block image *)
(* and caches it, and the step that builds that list from the RGB mapping  *)
(* of the configuration.                                                   *)
(*                                                                         *)
(* A Python dict is a function whose DOMAIN is the set of keys it holds, so*)
(* a missing key is a key outside the DOMAIN.  Colour entries live in a    *)
(* heap (a sequence, the index being the object's identity) so that two    *)
(* references to one entry can be told from two equal entries.             *)
(***************************************************************************)
EXTENDS Integers, Sequences, FiniteSets, TLC

VARIABLES
    heap,                \* the colour-entry objects, by identity
    config,              \* self._config
    cached_image,        \* self._cached_image
    image_last_updated,  \* self._attr_image_last_updated
    now,                 \* the clock dt_util.utcnow() reads
    pc,                  \* "idle", or "loop" inside create_color_block_image
    scene_colors,        \* the argument of the running (or last) call
    total_weight,        \* locals of create_color_block_image
    block_image,
    current_x,
    idx,                 \* position of the for loop in scene_colors
    drawn,               \* history: the draw.rectangle calls of this call
    outcome,             \* history: "none", "running", "ok", "failed"
    completed,           \* history: calls that returned normally
    last_input,          \* history: argument of the last such call
    call_time,           \* history: the clock when the call began
    pre_cached,          \* history: _cached_image when the call began
    pre_updated,         \* history: _attr_image_last_updated at that time
    pre_config,          \* history: _config before async_added_to_hass
    runs,                \* history: calls of either configuration method
    calls,               \* history: create_color_block_image calls begun
    adds,                \* history: async_added_to_hass calls
    builds,              \* history: runs of the RGB build
    edits                \* history: later changes of a produced entry

vars == <<heap, config, cached_image, image_last_updated, now, pc,
          scene_colors, total_weight, block_image, current_x, idx, drawn,
          outcome, completed, last_input, call_time, pre_cached,
          pre_updated, pre_config, runs, calls, adds, builds, edits>>

---------------------------------------------------------------------------
(* Bounds of the model. *)

MaxLen == 3        \* longest scene_colors list of a single call
MaxCalls == 3      \* calls in a sequence of calls
MaxClock == 2      \* ticks of the clock
MaxEntries == 2    \* entries of the stored mapping, and of the stored list
MaxRuns == 2       \* calls of the two configuration methods, together
MaxEdits == 1      \* later changes of a produced entry

---------------------------------------------------------------------------
(* Constants of the program. *)

width == 500
height == 100

CONF_COLORS == "colors"
CONF_COLOR_RGB_DICT == "color_rgb_dict"
CONF_COLOR_SELECTOR_MODE == "color_selector_mode"
CONF_COLOR_TYPE == "color_type"
CONF_COLOR_RGB == "rgb_color"
COLOR_SELECTOR_RGB_UI == "rgb_ui"

Red == <<255, 0, 0>>
Blue == <<0, 0, 255>>
\* PILImage.new("RGB", size) without a colour: every pixel is black.
Background == <<0, 0, 0>>

\* self._cached_image = None
None == [content |-> <<>>, content_type |-> "none"]

---------------------------------------------------------------------------
(* Helpers on dicts and lists. *)

Has(d, key) == key \in DOMAIN d

\* d.update({key: value})
Update(d, key, value) ==
    [k \in DOMAIN d \cup {key} |-> IF k = key THEN value ELSE d[k]]

SeqsUpTo(S, n) == UNION {[1..k -> S] : k \in 0..n}

RECURSIVE SumWeights(_)
\* sum(color_info["weight"] for color_info in scene_colors)
SumWeights(sc) ==
    IF sc = <<>> THEN 0 ELSE sc[1]["weight"] + SumWeights(Tail(sc))

---------------------------------------------------------------------------
(* create_color_block_image *)

\* the entry of scene_colors on which the sum of line 153 raises KeyError
WeightMissing(sc) == \E i \in 1..Len(sc) : ~Has(sc[i], "weight")

TotalWeightUnguarded(sc) == SumWeights(sc)
\* sum(...) or 1
TotalWeight(sc) == IF SumWeights(sc) = 0 THEN 1 ELSE SumWeights(sc)

BlockWidthRoundedUp(weight, total) == (weight * width + total - 1) \div total
\* int((color_info["weight"] / total_weight) * width): a float division, a
\* float product and a truncation.  For the non-negative integer weights of
\* this model (totals below 4000) the double never crosses an integer, so
\* the result is the exact floor of weight * width / total.
BlockWidth(weight, total) == (weight * width) \div total

SkippedOnlyIfNegative(block_width) == block_width < 0
\* if block_width <= 0: continue
Skipped(block_width) == block_width <= 0

AdvanceOneMore(x, block_width) == x + block_width + 1
\* current_x += block_width
Advance(x, block_width) == x + block_width

\* PILImage.new("RGB", (width, height))
NewImage == [x \in 0..(width - 1) |-> Background]

\* draw.rectangle([x0, 0, x1, height], fill=color).  Pillow's bounding box
\* holds both of its corners, and what lies outside the image is clipped;
\* rows 0..height cover every row of the image, so a rectangle fills whole
\* columns and the image is kept as one colour per column.
Rectangle(image, x0, x1, color) ==
    LET whole_column == \A y \in 0..(height - 1) : 0 <= y /\ y <= height
    IN  [x \in DOMAIN image |->
            IF whole_column /\ x0 <= x /\ x <= x1 THEN color ELSE image[x]]

\* Image(content=<PNG bytes of block_image>, content_type="image/png"); PNG
\* is lossless, the content is kept as the raster it encodes.
Image(raster) == [content |-> raster, content_type |-> "image/png"]

RaiseDroppingCache ==
    /\ pc' = "idle"
    /\ outcome' = "failed"
    /\ cached_image' = None
    /\ UNCHANGED image_last_updated
\* An exception leaves create_color_block_image: nothing after the raising
\* line runs, the function catches nothing.
Raise ==
    /\ pc' = "idle"
    /\ outcome' = "failed"
    /\ UNCHANGED <<cached_image, image_last_updated>>

\* Lines 149-159: the call, up to the first iteration of the loop.
Begin(sc) ==
    /\ pc = "idle"
    /\ calls' = calls + 1
    /\ scene_colors' = sc
    /\ call_time' = now
    /\ pre_cached' = cached_image
    /\ pre_updated' = image_last_updated
    /\ drawn' = <<>>
    /\ IF WeightMissing(sc)
         THEN /\ Raise
              /\ UNCHANGED <<total_weight, block_image, current_x, idx>>
         ELSE /\ total_weight' = TotalWeight(sc)
              /\ block_image' = NewImage
              /\ current_x' = 0
              /\ idx' = 1
              /\ pc' = "loop"
              /\ outcome' = "running"
              /\ UNCHANGED <<cached_image, image_last_updated>>
    /\ UNCHANGED <<now, completed, last_input>>

\* A call of create_color_block_image by another component.
CreateColorBlockImage(sc) ==
    /\ Begin(sc)
    /\ UNCHANGED <<heap, config, pre_config, runs, adds, builds, edits>>

\* Lines 160-167: one iteration of the loop.
LoopIteration ==
    /\ pc = "loop"
    /\ idx <= Len(scene_colors)
    /\ LET color_info == scene_colors[idx]
           block_width == BlockWidth(color_info["weight"], total_weight)
       IN  IF Skipped(block_width)
             THEN /\ idx' = idx + 1
                  /\ UNCHANGED <<pc, outcome, block_image, current_x, drawn,
                                 cached_image, image_last_updated>>
             ELSE IF ~Has(color_info, "color")
               THEN /\ Raise
                    /\ UNCHANGED <<idx, block_image, current_x, drawn>>
               ELSE /\ block_image' =
                          Rectangle(block_image, current_x,
                                    current_x + block_width,
                                    color_info["color"])
                    /\ drawn' = Append(drawn,
                          [entry |-> idx, start |-> current_x,
                           block_width |-> block_width,
                           color |-> color_info["color"]])
                    /\ current_x' = Advance(current_x, block_width)
                    /\ idx' = idx + 1
                    /\ UNCHANGED <<pc, outcome, cached_image,
                                   image_last_updated>>
    /\ UNCHANGED <<heap, config, now, scene_colors, total_weight, completed,
                   last_input, call_time, pre_cached, pre_updated,
                   pre_config, runs, calls, adds, builds, edits>>

ReturnKeepingTimestamp ==
    /\ pc = "loop"
    /\ idx > Len(scene_colors)
    /\ cached_image' = Image(block_image)
    /\ pc' = "idle"
    /\ outcome' = "ok"
    /\ completed' = completed + 1
    /\ last_input' = scene_colors
    /\ UNCHANGED <<heap, config, image_last_updated, now, scene_colors,
                   total_weight, block_image, current_x, idx, drawn,
                   call_time, pre_cached, pre_updated, pre_config, runs,
                   calls, adds, builds, edits>>

\* Lines 169-177: the loop is over, the image is encoded and cached.
Return ==
    /\ pc = "loop"
    /\ idx > Len(scene_colors)
    /\ cached_image' = Image(block_image)
    /\ image_last_updated' = now
    /\ pc' = "idle"
    /\ outcome' = "ok"
    /\ completed' = completed + 1
    /\ last_input' = scene_colors
    /\ UNCHANGED <<heap, config, now, scene_colors, total_weight,
                   block_image, current_x, idx, drawn, call_time,
                   pre_cached, pre_updated, pre_config, runs, calls,
                   adds, builds, edits>>

\* Time passes.
Tick ==
    /\ now < MaxClock
    /\ now' = now + 1
    /\ UNCHANGED <<heap, config, cached_image, image_last_updated, pc,
                   scene_colors, total_weight, block_image, current_x, idx,
                   drawn, outcome, completed, last_input, call_time,
                   pre_cached, pre_updated, pre_config, runs, calls,
                   adds, builds, edits>>

RECURSIVE RenderFrom(_, _, _, _)
\* Lines 160-167 as a function: the image after the loop has gone through
\* the entries `rest`, from the image and cursor before them.
RenderFrom(image, x, rest, total) ==
    IF rest = <<>> THEN image
    ELSE LET block_width == BlockWidth(rest[1]["weight"], total)
         IN  IF Skipped(block_width)
               THEN RenderFrom(image, x, Tail(rest), total)
               ELSE RenderFrom(
                        Rectangle(image, x, x + block_width, rest[1]["color"]),
                        Advance(x, block_width), Tail(rest), total)

\* Lines 152-167: the image a call that returns normally has drawn.
Rendering(sc) == RenderFrom(NewImage, 0, sc, TotalWeight(sc))

---------------------------------------------------------------------------
(* async_added_to_hass and _async_build_colors_from_rgb_dict.  A mapping   *)
(* is the sequence of its items in iteration order, each a key and a       *)
(* reference to an entry of the heap; a list is a sequence of references.  *)

\* self._config.get(key, default)
Get(c, key, default) == IF Has(c, key) THEN c[key] ELSE default

ShallowCopy(h, d) == [heap |-> h, value |-> d]
\* copy.deepcopy(mapping): a new mapping whose entries are new objects
\* equal to the old ones (an entry's colour and weight are kept as values).
DeepCopy(h, d) ==
    [heap |-> h \o [i \in 1..Len(d) |-> h[d[i].ref]],
     value |-> [i \in 1..Len(d) |-> [key |-> d[i].key, ref |-> Len(h) + i]]]

\* list(mapping.values())
Values(d) == [i \in 1..Len(d) |-> d[i].ref]

TypedIfUntyped(entry) ==
    IF Has(entry, CONF_COLOR_TYPE) THEN entry
    ELSE Update(entry, CONF_COLOR_TYPE, CONF_COLOR_RGB)
\* color.update({CONF_COLOR_TYPE: CONF_COLOR_RGB})
Typed(entry) == Update(entry, CONF_COLOR_TYPE, CONF_COLOR_RGB)

\* Lines 122-126: the heap and the config after the build.
BuildColorsFromRgbDict(h, c) ==
    LET copied == DeepCopy(h, Get(c, CONF_COLOR_RGB_DICT, <<>>))
        color_list == Values(copied.value)
        refs == {color_list[i] : i \in 1..Len(color_list)}
    IN  [heap |-> [r \in DOMAIN copied.heap |->
                      IF r \in refs THEN Typed(copied.heap[r])
                      ELSE copied.heap[r]],
         config |-> Update(c, CONF_COLORS, color_list)]

\* the entries a list of references names
Deref(h, list) == [i \in 1..Len(list) |-> h[list[i]]]

RgbDictStored(c) == Has(c, CONF_COLOR_RGB_DICT)
\* self._config.get(CONF_COLOR_SELECTOR_MODE, None) == COLOR_SELECTOR_RGB_UI
RgbUiSelected(c) ==
    Has(c, CONF_COLOR_SELECTOR_MODE)
        /\ c[CONF_COLOR_SELECTOR_MODE] = COLOR_SELECTOR_RGB_UI

\* A call of _async_build_colors_from_rgb_dict on its own.
AsyncBuildColorsFromRgbDict ==
    /\ pc = "idle"
    /\ LET built == BuildColorsFromRgbDict(heap, config)
       IN  /\ heap' = built.heap
           /\ config' = built.config
    /\ builds' = builds + 1
    /\ runs' = runs + 1
    /\ UNCHANGED <<cached_image, image_last_updated, now, pc, scene_colors,
                   total_weight, block_image, current_x, idx, drawn,
                   outcome, completed, last_input, call_time, pre_cached,
                   pre_updated, pre_config, calls, adds, edits>>

\* Lines 109-112; the call of create_color_block_image goes on in
\* LoopIteration and Return.
AsyncAddedToHass ==
    /\ LET build == RgbUiSelected(config)
           built == IF build THEN BuildColorsFromRgbDict(heap, config)
                    ELSE [heap |-> heap, config |-> config]
       IN  /\ heap' = built.heap
           /\ config' = built.config
           /\ builds' = IF build THEN builds + 1 ELSE builds
           /\ Begin(Deref(built.heap, Get(built.config, CONF_COLORS, <<>>)))
    /\ pre_config' = config
    /\ runs' = runs + 1
    /\ adds' = adds + 1
    /\ UNCHANGED edits

\* Another component assigns a field of an entry of the colors list.
EditColorsEntry(i, key, value) ==
    /\ pc = "idle"
    /\ Has(config, CONF_COLORS)
    /\ i \in 1..Len(config[CONF_COLORS])
    /\ heap' = [heap EXCEPT ![config[CONF_COLORS][i]] = Update(@, key, value)]
    /\ edits' = edits + 1
    /\ UNCHANGED <<config, cached_image, image_last_updated, now, pc,
                   scene_colors, total_weight, block_image, current_x, idx,
                   drawn, outcome, completed, last_input, call_time,
                   pre_cached, pre_updated, pre_config, runs, calls,
                   adds, builds>>

---------------------------------------------------------------------------
(* __init__ *)

Constructed(h, c) ==
    /\ heap = h
    /\ config = c
    /\ cached_image = None
    /\ image_last_updated = 0
    /\ now = 0
    /\ pc = "idle"
    /\ scene_colors = <<>>
    /\ total_weight = 0
    /\ block_image = <<>>
    /\ current_x = 0
    /\ idx = 0
    /\ drawn = <<>>
    /\ outcome = "none"
    /\ completed = 0
    /\ last_input = <<>>
    /\ call_time = 0
    /\ pre_cached = None
    /\ pre_updated = 0
    /\ pre_config = c
    /\ runs = 0
    /\ calls = 0
    /\ adds = 0
    /\ builds = 0
    /\ edits = 0

---------------------------------------------------------------------------
(* One call on a new entity, the argument drawn from RenderInputs. *)

RenderEntries ==
    {[color |-> c, weight |-> w] : c \in {Red, Blue}, w \in {0, 1, 2, 600}}
    \cup {[weight |-> w] : w \in {0, 1}}
    \cup {[color |-> Red]}

RenderInputs == SeqsUpTo(RenderEntries, MaxLen)

EmptyConfig == [k \in {} |-> 0]

Init == Constructed(<<>>, EmptyConfig)

FirstCall == calls = 0 /\ \E sc \in RenderInputs : CreateColorBlockImage(sc)

Next == FirstCall \/ LoopIteration \/ Return

Spec == Init /\ [][Next]_vars

---------------------------------------------------------------------------
(* A sequence of calls on one entity, while time passes. *)

CacheInputs ==
    { <<>>,
      <<[color |-> Red, weight |-> 1]>>,
      <<[color |-> Red, weight |-> 3], [color |-> Blue, weight |-> 1]>>,
      <<[color |-> Red, weight |-> 1], [color |-> Blue, weight |-> 2]>>,
      <<[color |-> Blue, weight |-> 1], [weight |-> 1]>>,
      <<[color |-> Red]>> }

Call == calls < MaxCalls /\ \E sc \in CacheInputs : CreateColorBlockImage(sc)

NextCache == Call \/ LoopIteration \/ Return \/ Tick

SpecCache == Init /\ [][NextCache]_vars

---------------------------------------------------------------------------
(* An entity with a stored configuration is added to Home Assistant. *)

DictEntries ==
    { [color |-> Red, weight |-> 1],
      [color |-> Blue, weight |-> 2, color_type |-> "other"] }

\* the i-th item of a stored mapping has key MaxEntries + 1 - i: the keys
\* come in an order that is not their sorted order
StoredDicts ==
    { [i \in 1..k |-> [key |-> MaxEntries + 1 - i, ref |-> i]] :
        k \in 0..MaxEntries }

StoredLists ==
    { <<>>,
      <<[color |-> Red, weight |-> 600],
        [color |-> Blue, weight |-> 1, color_type |-> "other"]>> }

ModeParts ==
    { EmptyConfig,
      [color_selector_mode |-> COLOR_SELECTOR_RGB_UI],
      [color_selector_mode |-> "other"] }

InitConfig ==
    \E m \in ModeParts, d \in StoredDicts, withDict \in BOOLEAN,
       l \in StoredLists, withList \in BOOLEAN :
      \E es \in [1..Len(d) -> DictEntries] :
        /\ withDict \/ d = <<>>
        /\ withList \/ l = <<>>
        /\ LET c1 == IF withDict THEN Update(m, CONF_COLOR_RGB_DICT, d)
                     ELSE m
               c2 == IF withList
                       THEN Update(c1, CONF_COLORS,
                                   [i \in 1..Len(l) |-> Len(d) + i])
                       ELSE c1
           IN  Constructed(es \o l, c2)

Added == runs < MaxRuns /\ AsyncAddedToHass

Built == runs < MaxRuns /\ AsyncBuildColorsFromRgbDict

\* a change of an entry the build has produced
Edited ==
    /\ edits < MaxEdits
    /\ builds > 0
    /\ \E i \in 1..MaxEntries :
          \/ EditColorsEntry(i, "weight", 9)
          \/ EditColorsEntry(i, CONF_COLOR_TYPE, "edited")

NextConfig == Added \/ Built \/ Edited \/ LoopIteration \/ Return

SpecConfig == InitConfig /\ [][NextConfig]_vars

---------------------------------------------------------------------------
(* Vocabulary of the properties. *)

RECURSIVE SumWidths(_)
\* the sum of the widths of a sequence of draw.rectangle calls
SumWidths(ds) ==
    IF ds = <<>> THEN 0 ELSE ds[1].block_width + SumWidths(Tail(ds))

DrawnWidth == SumWidths(drawn)

\* start_i of the i-th drawn block: the widths of the blocks drawn before it
StartOf(i) == SumWidths(SubSeq(drawn, 1, i - 1))

\* floor(weight / total_weight * 500) of entry j of the running call
FloorWidth(j) == (scene_colors[j]["weight"] * 500) \div total_weight

RECURSIVE SumEarlier(_)
\* the widths of entries 1..n of the running call that are > 0
SumEarlier(n) ==
    IF n = 0 THEN 0
    ELSE (IF FloorWidth(n) > 0 THEN FloorWidth(n) ELSE 0) + SumEarlier(n - 1)

AllWeightsZero(sc) ==
    \A i \in 1..Len(sc) : Has(sc[i], "weight") /\ sc[i]["weight"] = 0

Columns == 0..499

DrawnEntries == {drawn[j].entry : j \in 1..Len(drawn)}

---------------------------------------------------------------------------
(* C1: for a list of n entries whose weights sum to more than 0, the widths *)
(* of the blocks drawn sum to at most 500 at every point of the call, and   *)
(* once the call has returned 500 minus that sum is at most n.              *)
C1_WidthsFillCanvas ==
    (outcome \in {"running", "ok", "failed"}
        /\ ~WeightMissing(scene_colors) /\ SumWeights(scene_colors) > 0)
    => /\ DrawnWidth <= 500
       /\ \A j \in 1..Len(drawn) :
              drawn[j].block_width = FloorWidth(drawn[j].entry)
       /\ outcome = "ok" => 500 - DrawnWidth <= Len(scene_colors)

\* three entries of weight 1: 166 + 166 + 166, two columns of slack
C1_Witness ==
    /\ outcome = "ok"
    /\ Len(scene_colors) = 3
    /\ Len(drawn) = 3
    /\ DrawnWidth = 498

(* C2: for a list that is empty or whose weights are all 0 the call does    *)
(* not fail, total_weight is 1, no block is drawn, and the image cached is  *)
(* 500 columns of background.                                               *)
C2_ZeroWeightsDrawNothing ==
    (calls > 0 /\ AllWeightsZero(scene_colors))
    => /\ outcome \in {"running", "ok"}
       /\ total_weight = 1
       /\ drawn = <<>>
       /\ pc = "idle" =>
            /\ outcome = "ok"
            /\ cached_image.content_type = "image/png"
            /\ DOMAIN cached_image.content = Columns
            /\ \A x \in Columns : cached_image.content[x] = Background

C2_Witness ==
    /\ outcome = "ok"
    /\ Len(scene_colors) = 2
    /\ AllWeightsZero(scene_colors)
    /\ cached_image # None

(* C3: in the image produced, a column inside [start_i, start_i + width_i)  *)
(* of a drawn entry i has that entry's colour, and every column at or past  *)
(* the sum of the drawn widths has the background.                          *)
C3_ColumnsFollowBlocks ==
    outcome = "ok"
    => /\ \A i \in 1..Len(drawn) : \A x \in Columns :
              (StartOf(i) <= x /\ x < StartOf(i) + drawn[i].block_width)
              => cached_image.content[x] = drawn[i].color
       /\ \A x \in Columns :
              x >= DrawnWidth => cached_image.content[x] = Background

(* C4: an entry whose block_width is <= 0 paints nothing and leaves the     *)
(* cursor where it was; before entry i the cursor is the sum of the widths  *)
(* of the earlier entries whose width is > 0, and a drawn entry is drawn    *)
(* there with its own width.                                                *)
C4_SkippedEntryChangesNothing ==
    [][(pc = "loop" /\ pc' = "loop" /\ idx' = idx + 1)
        => /\ current_x = SumEarlier(idx - 1)
           /\ FloorWidth(idx) <= 0
                => /\ block_image' = block_image
                   /\ current_x' = current_x
                   /\ drawn' = drawn
           /\ FloorWidth(idx) > 0
                => /\ Len(drawn') = Len(drawn) + 1
                   /\ drawn'[Len(drawn')].start = SumEarlier(idx - 1)
                   /\ drawn'[Len(drawn')].block_width = FloorWidth(idx)
                   /\ current_x' = SumEarlier(idx)]_vars

\* an entry of weight > 0 was skipped and a later entry drawn
C4_Witness ==
    /\ outcome = "ok"
    /\ \E i \in 1..Len(scene_colors) :
          /\ scene_colors[i]["weight"] > 0
          /\ i \notin DrawnEntries
          /\ \E k \in DrawnEntries : k > i

(* C8, as stated: a call whose list holds an entry without a colour or      *)
(* without a weight never returns normally.                                 *)
Malformed(e) == ~Has(e, "color") \/ ~Has(e, "weight")

C8_MalformedAlwaysFails ==
    (calls > 0 /\ \E i \in 1..Len(scene_colors) : Malformed(scene_colors[i]))
    => outcome # "ok"

(* C8, amended: a call fails exactly when an entry has no weight, or an     *)
(* entry without a colour has a block_width > 0; an entry without a colour  *)
(* whose block_width is <= 0 is skipped and does not make the call fail.    *)
C8_FailsUnlessSkipped ==
    (calls > 0 /\ pc = "idle")
    => (outcome = "failed"
          <=> \/ WeightMissing(scene_colors)
              \/ \E i \in 1..Len(scene_colors) :
                    /\ ~Has(scene_colors[i], "color")
                    /\ (scene_colors[i]["weight"] * 500)
                          \div TotalWeight(scene_colors) > 0)

\* both cases: a colourless entry skipped, a colourless entry that fails
C8_Witness ==
    /\ outcome = "ok"
    /\ Len(drawn) > 0
    /\ \E i \in 1..Len(scene_colors) : ~Has(scene_colors[i], "color")

(* C5: the build produces, for a stored mapping of k entries, a colors list *)
(* of exactly k entries, the mapping's values in its iteration order, each  *)
(* with the colour and weight of the stored entry and the RGB type tag.     *)
C5_BuildListsMappingValues ==
    [][builds' = builds + 1
        => LET d == Get(config, CONF_COLOR_RGB_DICT, <<>>)
           IN  /\ Has(config', CONF_COLORS)
               /\ Len(config'[CONF_COLORS]) = Len(d)
               /\ \A i \in 1..Len(d) :
                     LET stored == heap[d[i].ref]
                         produced == heap'[config'[CONF_COLORS][i]]
                     IN  /\ DOMAIN produced
                               = DOMAIN stored \cup {CONF_COLOR_TYPE}
                         /\ \A k \in DOMAIN stored \ {CONF_COLOR_TYPE} :
                               produced[k] = stored[k]
                         /\ produced[CONF_COLOR_TYPE] = CONF_COLOR_RGB]_vars

\* two entries built, of different colours, their keys not in sorted order
C5_Witness ==
    /\ builds > 0
    /\ edits = 0
    /\ Has(config, CONF_COLOR_RGB_DICT)
    /\ Len(config[CONF_COLOR_RGB_DICT]) = 2
    /\ config[CONF_COLOR_RGB_DICT][1].key > config[CONF_COLOR_RGB_DICT][2].key
    /\ Len(config[CONF_COLORS]) = 2
    /\ heap[config[CONF_COLORS][1]]["color"] = Red
    /\ heap[config[CONF_COLORS][2]]["color"] = Blue
    /\ heap[config[CONF_COLORS][2]][CONF_COLOR_TYPE] = CONF_COLOR_RGB

(* C6: no step changes the stored mapping or an entry of it (the build adds *)
(* no type tag to a stored entry), and the entries of the colors list are   *)
(* other objects than the stored ones, so that a later change of a produced *)
(* entry leaves the stored entry as it was.                                 *)
C6_StoredMappingUntouched ==
    [][LET d == Get(config, CONF_COLOR_RGB_DICT, <<>>)
           produced == Get(config', CONF_COLORS, <<>>)
       IN  /\ Has(config, CONF_COLOR_RGB_DICT)
                => /\ Has(config', CONF_COLOR_RGB_DICT)
                   /\ config'[CONF_COLOR_RGB_DICT] = d
           /\ \A i \in 1..Len(d) : heap'[d[i].ref] = heap[d[i].ref]
           /\ \A i \in 1..Len(d), j \in 1..Len(produced) :
                 d[i].ref # produced[j]]_vars

\* a produced entry was changed after the build, the stored one was not
C6_Witness ==
    /\ builds > 0
    /\ edits > 0
    /\ Has(config, CONF_COLOR_RGB_DICT)
    /\ Len(config[CONF_COLORS]) = Len(config[CONF_COLOR_RGB_DICT])
    /\ \E i \in 1..Len(config[CONF_COLORS]) :
          /\ heap[config[CONF_COLORS][i]]["weight"] = 9
          /\ heap[config[CONF_COLOR_RGB_DICT][i].ref]["weight"] # 9
          /\ ~Has(heap[config[CONF_COLOR_RGB_DICT][i].ref], CONF_COLOR_TYPE)

(* C7: the cached image is absent exactly when no call has returned         *)
(* normally; otherwise it is the whole image of the argument of the last    *)
(* call that did, also while a later call is drawing or after it failed;    *)
(* and a call that returned normally has set the timestamp to the clock of  *)
(* its return.                                                              *)
C7_CacheIsLastCompleteImage ==
    /\ cached_image = None <=> completed = 0
    /\ completed > 0 => cached_image = Image(Rendering(last_input))
    /\ outcome = "ok"
         => call_time <= image_last_updated /\ image_last_updated <= now

\* a second image has replaced the first, at a later time
C7_Witness ==
    /\ completed = 2
    /\ outcome = "ok"
    /\ pre_cached # None
    /\ cached_image # pre_cached
    /\ image_last_updated > pre_updated

(* C9: after a call that failed, the cached image and the timestamp are     *)
(* what they were when the call began.                                      *)
C9_FailureKeepsCache ==
    outcome = "failed"
    => cached_image = pre_cached /\ image_last_updated = pre_updated

\* a call failed in the loop, after a block was drawn, with an image cached
C9_Witness ==
    /\ outcome = "failed"
    /\ Len(drawn) > 0
    /\ cached_image # None
    /\ now > image_last_updated

(* C10: async_added_to_hass in the RGB-UI mode sets the colors key to the   *)
(* tagged values of the stored mapping (the empty list without a mapping),  *)
(* whatever list was stored, and renders that list; in any other mode, or   *)
(* without a mode, it changes nothing of the configuration and renders the  *)
(* stored colors list (the empty list without one).                         *)
C10_ModeAloneChoosesList ==
    [][adds' = adds + 1
        => IF Has(config, CONF_COLOR_SELECTOR_MODE)
                /\ config[CONF_COLOR_SELECTOR_MODE] = COLOR_SELECTOR_RGB_UI
             THEN LET d == Get(config, CONF_COLOR_RGB_DICT, <<>>)
                  IN  /\ Has(config', CONF_COLORS)
                      /\ config' = Update(config, CONF_COLORS,
                                          config'[CONF_COLORS])
                      /\ Deref(heap', config'[CONF_COLORS])
                            = [i \in 1..Len(d) |->
                                 Update(heap[d[i].ref], CONF_COLOR_TYPE,
                                        CONF_COLOR_RGB)]
                      /\ scene_colors' = Deref(heap', config'[CONF_COLORS])
             ELSE /\ config' = config
                  /\ heap' = heap
                  /\ scene_colors'
                        = Deref(heap, Get(config, CONF_COLORS, <<>>))]_vars

\* RGB-UI mode: a stored list was replaced by the mapping's values, rendered
C10_Witness ==
    /\ adds > 0
    /\ builds > 0
    /\ edits = 0
    /\ outcome = "ok"
    /\ Has(pre_config, CONF_COLORS)
    /\ Len(pre_config[CONF_COLORS]) = 2
    /\ Len(config[CONF_COLORS]) = 1
    /\ scene_colors = Deref(heap, config[CONF_COLORS])

===========================================================================
